---- MODULE Spec2Model ----
(***************************************************************************)
(* A model of src/main.py: the YouTube channel scraper.                    *)
(*                                                                         *)
(* Python values are modelled as tagged records [ty, v]:                   *)
(*   dict  -> v is the sequence of <<key, value>> pairs, in insertion order*)
(*   list  -> v is the sequence of elements                                *)
(*   str   -> v is the string                                              *)
(*   num   -> v is the integer                                             *)
(*   null  -> Python None                                                  *)
(* An operation that raises yields the value RAISE, which every caller     *)
(* propagates up to the nearest try/except of the source.                  *)
(***************************************************************************)
EXTENDS Integers, Sequences, FiniteSets, TLC

YOUTUBE_ROOT == "https://www.youtube.com"

\* ---------------------------------------------------------------- values

Dict(kv) == [ty |-> "dict", v |-> kv]
List(el) == [ty |-> "list", v |-> el]
Str(s) == [ty |-> "str", v |-> s]
Num(n) == [ty |-> "num", v |-> n]
None == [ty |-> "null", v |-> 0]
RAISE == [ty |-> "raise", v |-> 0]
EmptyDict == Dict(<<>>)
EmptyList == List(<<>>)
EmptyStr == Str("")

\* Python truthiness: bool(x)
Truthy(x) ==
    CASE x.ty = "str" -> x.v # ""
      [] x.ty = "num" -> x.v # 0
      [] x.ty = "null" -> FALSE
      [] OTHER -> x.v # <<>>

\* k in d, for a dict d
Has(d, k) == \E i \in 1..Len(d.v) : d.v[i][1] = k

\* d[k], for a dict d that has k
Get(d, k) == d.v[CHOOSE i \in 1..Len(d.v) : d.v[i][1] = k][2]

\* d.get(k, dflt), for a dict d
GetOr(d, k, dflt) == IF Has(d, k) THEN Get(d, k) ELSE dflt

\* x.get(k, dflt) for any x: only a dict has .get (AttributeError otherwise)
DotGet(x, k, dflt) ==
    IF x.ty = "raise" \/ x.ty # "dict" THEN RAISE ELSE GetOr(x, k, dflt)

\* k in x, for any x: key of a dict, element of a list, substring of a str.
\* No string of the model contains a key name as a proper substring.
In(k, x) ==
    CASE x.ty = "dict" -> Has(x, k)
      [] x.ty = "list" -> \E i \in 1..Len(x.v) : x.v[i] = Str(k)
      [] x.ty = "str" -> x.v = k
      [] OTHER -> FALSE

\* k in x is a TypeError for None and for a number
InRaises(x) == x.ty \in {"null", "num", "raise"}

\* x[k] for a string key k: only a dict that has k
Index(x, k) == IF x.ty = "dict" /\ Has(x, k) THEN Get(x, k) ELSE RAISE

\* ---------------------------------------------------------------- _walk

RECURSIVE _walk(_), walk_items(_, _), walk_list(_, _)
\* the sequence of (k, v) pairs the generator yields, in order
_walk(obj) ==
    IF obj.ty = "dict" THEN walk_items(obj.v, 1)
    ELSE IF obj.ty = "list" THEN walk_list(obj.v, 1)
    ELSE <<>>

\* for k, v in obj.items(): yield k, v; yield from _walk(v)
walk_items(kv, i) ==
    IF i > Len(kv) THEN <<>>
    ELSE <<kv[i]>> \o _walk(kv[i][2]) \o walk_items(kv, i + 1)

\* for it in obj: yield from _walk(it)
walk_list(el, i) ==
    IF i > Len(el) THEN <<>>
    ELSE _walk(el[i]) \o walk_list(el, i + 1)

\* ---------------------------------------------------------------- _pick_text

\* one step of str.join: a fragment that is no str is a TypeError
join(t, rest) ==
    IF t.ty # "str" \/ rest.ty = "raise" THEN RAISE ELSE Str(t.v \o rest.v)

RECURSIVE join_runs(_, _)
\* "".join(r.get("text", "") for r in runs) over a list's elements
join_runs(el, i) ==
    IF i > Len(el) THEN EmptyStr
    ELSE join(DotGet(el[i], "text", EmptyStr), join_runs(el, i + 1))

\* line 62: the join over t["runs"]; iterating a non-empty dict or str
\* gives strings, which have no .get, and None or a number is not iterable
join_all(runs) ==
    CASE runs.ty = "list" -> join_runs(runs.v, 1)
      [] runs.ty = "dict" -> IF runs.v = <<>> THEN EmptyStr ELSE RAISE
      [] runs.ty = "str" -> IF runs.v = "" THEN EmptyStr ELSE RAISE
      [] OTHER -> RAISE

_pick_text(t) ==
    IF t.ty # "dict" THEN EmptyStr
    ELSE IF Has(t, "simpleText") THEN Get(t, "simpleText")
    ELSE IF Has(t, "content") THEN Get(t, "content")
    ELSE IF Has(t, "runs") THEN join_all(Get(t, "runs"))
    ELSE EmptyStr

\* ---------------------------------------------------------------- _parse_item

\* thumbs[idx].get("url", "") guarded by "if thumbs:"; last = TRUE is thumbs[-1],
\* last = FALSE is thumbs[0]; dflt is the value thumb keeps when thumbs is falsy
pick_thumb(thumbs, last, dflt) ==
    IF thumbs.ty = "raise" THEN RAISE
    ELSE IF ~Truthy(thumbs) THEN dflt
    ELSE IF thumbs.ty # "list" THEN RAISE
    ELSE DotGet(thumbs.v[IF last THEN Len(thumbs.v) ELSE 1], "url", EmptyStr)

RECURSIVE find_endpoint(_, _)
\* lines 105-108: the videoId of the first reelWatchEndpoint / watchEndpoint
\* pair of the walk that contains "videoId"; None when the loop ends without
\* a break
find_endpoint(w, i) ==
    IF i > Len(w) THEN None
    ELSE IF w[i][1] \in {"reelWatchEndpoint", "watchEndpoint"}
    THEN IF InRaises(w[i][2]) THEN RAISE
         ELSE IF In("videoId", w[i][2]) THEN Index(w[i][2], "videoId")
         ELSE find_endpoint(w, i + 1)
    ELSE find_endpoint(w, i + 1)

\* a or b, for two values either of which may have raised
OrElse(a, b) == IF a.ty = "raise" THEN RAISE ELSE IF Truthy(a) THEN a ELSE b

\* {video_id} in an f-string
Format(video_id) ==
    CASE video_id.ty = "str" -> video_id.v
      [] video_id.ty = "num" -> ToString(video_id.v)
      [] OTHER -> "<object>"

\* mutant: the watch route whatever is_short is
final_url_watch_only(video_id, is_short) ==
    Str(YOUTUBE_ROOT \o "/watch?v=" \o Format(video_id))

\* lines 128-131: the f-string of the final url
final_url(video_id, is_short) ==
    IF is_short THEN Str(YOUTUBE_ROOT \o "/shorts/" \o Format(video_id))
    ELSE Str(YOUTUBE_ROOT \o "/watch?v=" \o Format(video_id))

\* lines 125-139: None without an id, else the item dict
make_item(video_id, title, desc, thumb, is_short) ==
    IF "raise" \in {video_id.ty, title.ty, desc.ty, thumb.ty} THEN RAISE
    ELSE IF ~Truthy(video_id) THEN None
    ELSE Dict(<< <<"id_interno", video_id>>,
                 <<"url", final_url(video_id, is_short)>>,
                 <<"title", title>>,
                 <<"description", desc>>,
                 <<"thumbnail", thumb>> >>)

\* lines 94-101: the record has a videoId key
parse_direct(data, is_short) ==
    LET video_id == Get(data, "videoId")
        title == OrElse(_pick_text(GetOr(data, "title", EmptyDict)),
                        _pick_text(GetOr(data, "headline", EmptyDict)))
        thumb == IF Has(data, "thumbnail")
                 THEN pick_thumb(DotGet(Get(data, "thumbnail"), "thumbnails",
                                        EmptyList), TRUE, EmptyStr)
                 ELSE EmptyStr
        desc == IF Has(data, "descriptionSnippet")
                THEN _pick_text(Get(data, "descriptionSnippet"))
                ELSE EmptyStr
    IN  make_item(video_id, title, desc, thumb, is_short)

\* _pick_text of a value that may have raised
pick_text_of(t) == IF t.ty = "raise" THEN RAISE ELSE _pick_text(t)

\* lines 109-114, for the video_id the scan of lines 105-108 left
ontap_item(data, is_short, video_id) ==
    IF video_id.ty = "raise" THEN RAISE
    ELSE IF ~Truthy(video_id) THEN None
    ELSE make_item(
            video_id,
            IF Has(data, "overlayMetadata")
            THEN pick_text_of(DotGet(Get(data, "overlayMetadata"),
                                     "primaryText", EmptyDict))
            ELSE EmptyStr,
            EmptyStr,
            IF Has(data, "thumbnail")
            THEN pick_thumb(DotGet(Get(data, "thumbnail"), "sources",
                                   EmptyList), TRUE, EmptyStr)
            ELSE EmptyStr,
            is_short)

\* lines 103-114: the record has an onTap key (and no videoId key)
parse_ontap(data, is_short) ==
    ontap_item(data, is_short, find_endpoint(_walk(Get(data, "onTap")), 1))

\* lines 116-123: the record has a navigationEndpoint key (and neither of the
\* other two)
parse_nav(data, is_short) ==
    LET nav == Get(data, "navigationEndpoint")
    IN  IF InRaises(nav) THEN RAISE
        ELSE IF ~In("reelWatchEndpoint", nav) THEN None
        ELSE LET video_id == DotGet(Index(nav, "reelWatchEndpoint"),
                                    "videoId", None)
                 title == _pick_text(GetOr(data, "headline", EmptyDict))
                 thumb == IF Has(data, "thumbnail")
                          THEN pick_thumb(DotGet(Get(data, "thumbnail"),
                                                 "thumbnails", EmptyList),
                                          FALSE, EmptyStr)
                          ELSE EmptyStr
             IN  make_item(video_id, title, EmptyStr, thumb, is_short)

\* mutant: the onTap branch is tried before the videoId branch
_parse_item_ontap_first(data, is_short) ==
    IF Has(data, "onTap") THEN parse_ontap(data, is_short)
    ELSE IF Has(data, "videoId") THEN parse_direct(data, is_short)
    ELSE IF Has(data, "navigationEndpoint") THEN parse_nav(data, is_short)
    ELSE None

\* data is a dict (line 147 checks it); the result is the item dict, None, or
\* RAISE
_parse_item(data, is_short) ==
    IF Has(data, "videoId") THEN parse_direct(data, is_short)
    ELSE IF Has(data, "onTap") THEN parse_ontap(data, is_short)
    ELSE IF Has(data, "navigationEndpoint") THEN parse_nav(data, is_short)
    ELSE None

\* ---------------------------------------------------------------- _extract_from_data

target_keys ==
    {"gridVideoRenderer", "videoRenderer", "reelItemRenderer",
     "shortsLockupViewModel"}

\* a list computation that raised is the one-element sequence <<RAISE>>
Raised(seq) == Len(seq) > 0 /\ seq[1].ty = "raise"

\* line 150: if parsed: items.append(parsed), ahead of the items that follow
add_parsed(parsed, rest) ==
    IF parsed.ty = "raise" \/ Raised(rest) THEN <<RAISE>>
    ELSE IF Truthy(parsed) THEN <<parsed>> \o rest
    ELSE rest

RECURSIVE collect_items(_, _, _)
\* lines 146-150: the parsed items of the walk w from position i on, in order
collect_items(w, i, is_short_tab) ==
    IF i > Len(w) THEN <<>>
    ELSE IF w[i][1] \in target_keys /\ w[i][2].ty = "dict"
    THEN add_parsed(
            _parse_item(w[i][2],
                        is_short_tab
                        \/ w[i][1] \in {"reelItemRenderer",
                                        "shortsLockupViewModel"}),
            collect_items(w, i + 1, is_short_tab))
    ELSE collect_items(w, i + 1, is_short_tab)

\* if token: continuation = token; break -- else the loop goes on to later
token_or(token, later) ==
    IF token.ty = "raise" THEN RAISE
    ELSE IF Truthy(token) THEN token
    ELSE later

RECURSIVE item_token(_, _)
\* lines 152-157: the token of the first continuationItemRenderer with one
item_token(w, i) ==
    IF i > Len(w) THEN None
    ELSE IF w[i][1] = "continuationItemRenderer"
    THEN token_or(DotGet(DotGet(DotGet(w[i][2], "continuationEndpoint",
                                       EmptyDict),
                                "continuationCommand", EmptyDict),
                         "token", None),
                  item_token(w, i + 1))
    ELSE item_token(w, i + 1)

RECURSIVE command_token(_, _)
\* lines 159-162: the token of the first continuationCommand with one
command_token(w, i) ==
    IF i > Len(w) THEN None
    ELSE IF w[i][1] = "continuationCommand"
    THEN token_or(DotGet(w[i][2], "token", None), command_token(w, i + 1))
    ELSE command_token(w, i + 1)

\* line 164: the pair (items, continuation) as a record, or RAISE
Extracted(found, continuation) ==
    IF Raised(found) \/ continuation.ty = "raise" THEN RAISE
    ELSE [ty |-> "ok", items |-> found, continuation |-> continuation]

\* mutant: the continuationCommand loop runs first
extract_walk_command_first(w, is_short_tab) ==
    Extracted(collect_items(w, 1, is_short_tab),
              token_or(command_token(w, 1), item_token(w, 1)))

\* lines 146-162 over the pairs w of the walk; line 158 starts the second
\* token loop when the first left continuation falsy
extract_walk(w, is_short_tab) ==
    Extracted(collect_items(w, 1, is_short_tab),
              token_or(item_token(w, 1), command_token(w, 1)))

\* the pair (items, continuation) as a record, or RAISE
_extract_from_data(data, is_short_tab) ==
    extract_walk(_walk(data), is_short_tab)

\* ---------------------------------------------------------------- _browse_req

\* What session.post and r.json() did: exc is a transport exception, body is
\* the parsed body or RAISE when it is not JSON.
Reply(exc, status_code, body) ==
    [exc |-> exc, status_code |-> status_code, body |-> body]

\* mutant: <= 400 for < 400
_browse_req_400(r) ==
    IF r.exc THEN EmptyDict
    ELSE IF r.status_code <= 400
    THEN (IF r.body.ty = "raise" THEN EmptyDict ELSE r.body)
    ELSE EmptyDict

\* lines 184-188: the body of a reply below 400, {} in every other case
_browse_req(r) ==
    IF r.exc THEN EmptyDict
    ELSE IF r.status_code < 400
    THEN (IF r.body.ty = "raise" THEN EmptyDict ELSE r.body)
    ELSE EmptyDict

\* ---------------------------------------------------------------- initial page

\* The initial page as the two regular-expression searches see it: the API
\* key and client version they capture (None without a match) and the
\* ytInitialData block (None without a match, RAISE when json.loads rejects
\* it).
Html(api_key, client_version, ytInitialData) ==
    [api_key |-> api_key, client_version |-> client_version,
     ytInitialData |-> ytInitialData]

\* lines 31-39
_extract_innertube(html) ==
    IF html.api_key = None \/ html.client_version = None THEN RAISE
    ELSE Dict(<< <<"api_key", html.api_key>>,
                 <<"client_version", html.client_version>> >>)

\* lines 41-47
_extract_ytinitialdata(html) ==
    IF html.ytInitialData = None THEN RAISE ELSE html.ytInitialData

\* ---------------------------------------------------------------- scrape_tab

Tabs == {"videos", "lives", "shorts"}

\* line 191
suffix(tab) ==
    IF tab = "shorts" THEN "/shorts"
    ELSE IF tab = "lives" THEN "/streams" ELSE "/videos"

\* mutant: the item is appended as it is
strip_id_kept(i) == i

\* {k: v for k, v in i.items() if k != "id_interno"}
strip_id(i) == Dict(SelectSeq(i.v, LAMBDA p : p[1] # "id_interno"))

\* mutant: > for >=
cap_reached_late(max_items, items) ==
    Truthy(max_items) /\ Len(items) > max_items.v

\* max_items and len(items) >= max_items
cap_reached(max_items, items) ==
    Truthy(max_items) /\ Len(items) >= max_items.v

\* a list or a dict is unhashable: "in seen_ids" raises TypeError
Unhashable(x) == x.ty \in {"list", "dict"}

\* mutant: the seen_ids test dropped
is_new_always(id, seen_ids) == TRUE

\* lines 210 and 233: i["id_interno"] not in seen_ids
is_new(id, seen_ids) == id \notin seen_ids

\* mutant: the non-advancing token guard dropped
loop_stops_unguarded(new_cont, continuation) == ~Truthy(new_cont)

\* line 246: not new_cont or new_cont == continuation
loop_stops(new_cont, continuation) ==
    ~Truthy(new_cont) \/ new_cont = continuation

\* ---- description enrichment

\* What session.get did for a /watch page: exc is a transport exception,
\* player the ytInitialPlayerResponse block the regular expression captured
\* (None without a match, RAISE when json.loads rejects it).
WatchPage(exc, player) == [exc |-> exc, player |-> player]

\* a value that may have raised, with the handler of lines 82-84
OrEmpty(x) == IF x.ty = "raise" THEN EmptyStr ELSE x

\* lines 65-84
_fetch_full_description_text(page) ==
    IF page.exc \/ page.player = None THEN EmptyStr
    ELSE OrEmpty(DotGet(DotGet(page.player, "videoDetails", EmptyDict),
                        "shortDescription", EmptyStr))

\* the fetch_full_desc argument and, for the lookups, what the remote serves
\* for the /watch page of each id
Enrichment(fetch_full_desc, watch) ==
    [fetch_full_desc |-> fetch_full_desc, watch |-> watch]

\* i with i["description"] = full_desc
SetDescription(i, full_desc) ==
    Dict([k \in 1..Len(i.v) |->
            IF i.v[k][1] = "description" THEN <<"description", full_desc>>
            ELSE i.v[k]])

\* mutant: the description is overwritten whatever the lookup returned
described_always(i, full_desc) == SetDescription(i, full_desc)

\* lines 218-219 and 240-241: if full_desc: i["description"] = full_desc
described(i, full_desc) ==
    IF Truthy(full_desc) THEN SetDescription(i, full_desc) ELSE i

\* lines 214-219 and 237-241: the item as it is appended
enriched(i, fd) ==
    IF fd.fetch_full_desc
    THEN described(i, _fetch_full_description_text(
                         fd.watch[Format(Get(i, "id_interno"))]))
    ELSE i

\* the lookups lines 217 and 239 issue for the item: its id, or none
looked_up(i, fd) ==
    IF fd.fetch_full_desc THEN <<Get(i, "id_interno")>> ELSE <<>>

\* the state of a merge loop: looked holds the ids looked up, in order
Merged(items, seen_ids, looked, raised) ==
    [items |-> items, seen_ids |-> seen_ids, looked |-> looked,
     raised |-> raised]

RECURSIVE merge_first(_, _, _, _, _, _)
\* lines 209-221: the initial page's items from position n on
merge_first(items, seen_ids, page_items, n, fd, looked) ==
    IF n > Len(page_items) THEN Merged(items, seen_ids, looked, FALSE)
    ELSE LET id == Get(page_items[n], "id_interno")
         IN  IF Unhashable(id) THEN Merged(items, seen_ids, looked, TRUE)
             ELSE IF ~is_new(id, seen_ids)
             THEN merge_first(items, seen_ids, page_items, n + 1, fd, looked)
             ELSE merge_first(
                     Append(items, strip_id(enriched(page_items[n], fd))),
                     seen_ids \cup {id}, page_items, n + 1, fd,
                     looked \o looked_up(page_items[n], fd))

RECURSIVE merge_next(_, _, _, _, _, _, _)
\* lines 232-244: a continuation page's items from position n on, leaving the
\* loop once the cap is reached
merge_next(items, seen_ids, page_items, n, max_items, fd, looked) ==
    IF n > Len(page_items) THEN Merged(items, seen_ids, looked, FALSE)
    ELSE LET id == Get(page_items[n], "id_interno")
         IN  IF Unhashable(id) THEN Merged(items, seen_ids, looked, TRUE)
             ELSE IF ~is_new(id, seen_ids)
             THEN merge_next(items, seen_ids, page_items, n + 1, max_items,
                             fd, looked)
             ELSE LET more == Append(items,
                                     strip_id(enriched(page_items[n], fd)))
                  IN  IF cap_reached(max_items, more)
                      THEN Merged(more, seen_ids \cup {id},
                                  looked \o looked_up(page_items[n], fd),
                                  FALSE)
                      ELSE merge_next(more, seen_ids \cup {id}, page_items,
                                      n + 1, max_items, fd,
                                      looked \o looked_up(page_items[n], fd))

\* items[:max_items] for a cap >= 0
truncate(items, max_items) ==
    IF Truthy(max_items)
    THEN SubSeq(items, 1, IF max_items.v < Len(items) THEN max_items.v
                          ELSE Len(items))
    ELSE items

\* The local variables of one scrape_tab call.  pc is "start" before the
\* initial fetch, "loop" at the head of the while loop, "break" after a break
\* out of it, "done" after the return; err is TRUE when the return came from
\* the handler of lines 253-255.  lookups is not a local: it records the ids
\* _fetch_full_description_text was called for, in order.
Locals(pc, keys, items, seen_ids, continuation, page_items, new_cont, err) ==
    [pc |-> pc, keys |-> keys, items |-> items, seen_ids |-> seen_ids,
     continuation |-> continuation, page_items |-> page_items,
     new_cont |-> new_cont, err |-> err, lookups |-> <<>>]

Fresh == Locals("start", None, <<>>, {}, None, <<>>, None, FALSE)

\* return []: from line 202 (err = FALSE) or from line 255 (err = TRUE)
ReturnEmpty(La, err) ==
    [La EXCEPT !.pc = "done", !.items = <<>>, !.err = err]

\* lines 209-221, with the initial page extracted to ex and merged to m
start_merged(keys, ex, m) ==
    IF m.raised THEN [ReturnEmpty(Fresh, TRUE) EXCEPT !.lookups = m.looked]
    ELSE [Locals("loop", keys, m.items, m.seen_ids, ex.continuation,
                 ex.items, None, FALSE) EXCEPT !.lookups = m.looked]

\* lines 204-221, with the initial page extracted to ex
start_extracted(keys, ex, fd) ==
    IF ex.ty = "raise" THEN ReturnEmpty(Fresh, TRUE)
    ELSE start_merged(keys, ex, merge_first(<<>>, {}, ex.items, 1, fd, <<>>))

\* lines 198-221, with the results of the two calls of lines 199-200
start_parsed(tab, keys, initial, fd) ==
    IF keys.ty = "raise" \/ initial.ty = "raise"
    THEN ReturnEmpty(Fresh, FALSE)
    ELSE start_extracted(keys, _extract_from_data(initial, tab = "shorts"),
                         fd)

\* lines 195-221: get is what session.get did, exc a transport exception and
\* html the page text otherwise
scrape_tab_start(tab, get, fd) ==
    IF get.exc THEN ReturnEmpty(Fresh, TRUE)
    ELSE start_parsed(tab, _extract_innertube(get.html),
                      _extract_ytinitialdata(get.html), fd)

\* the while condition of line 223 and the cap check of line 224
wants_fetch(La, max_items) ==
    La.pc = "loop" /\ Truthy(La.continuation)
    /\ ~cap_reached(max_items, La.items)

\* mutant: line 247 dropped, the token of the new page is not taken over
iterate_merged_stale(La, ex, m) ==
    IF m.raised
    THEN [ReturnEmpty(La, TRUE) EXCEPT !.lookups = La.lookups \o m.looked]
    ELSE IF loop_stops(ex.continuation, La.continuation)
    THEN [La EXCEPT !.pc = "break", !.items = m.items,
                    !.seen_ids = m.seen_ids, !.page_items = ex.items,
                    !.new_cont = ex.continuation,
                    !.lookups = La.lookups \o m.looked]
    ELSE [La EXCEPT !.pc = "loop", !.items = m.items,
                    !.seen_ids = m.seen_ids, !.page_items = ex.items,
                    !.new_cont = ex.continuation,
                    !.lookups = La.lookups \o m.looked]

\* lines 232-247, with the page extracted to ex and merged to m
iterate_merged(La, ex, m) ==
    IF m.raised
    THEN [ReturnEmpty(La, TRUE) EXCEPT !.lookups = La.lookups \o m.looked]
    ELSE IF loop_stops(ex.continuation, La.continuation)
    THEN [La EXCEPT !.pc = "break", !.items = m.items,
                    !.seen_ids = m.seen_ids, !.page_items = ex.items,
                    !.new_cont = ex.continuation,
                    !.lookups = La.lookups \o m.looked]
    ELSE [La EXCEPT !.pc = "loop", !.items = m.items,
                    !.seen_ids = m.seen_ids, !.page_items = ex.items,
                    !.new_cont = ex.continuation,
                    !.lookups = La.lookups \o m.looked,
                    !.continuation = ex.continuation]

\* lines 230-247, with the page extracted to ex
iterate_extracted(La, max_items, ex, fd) ==
    IF ex.ty = "raise" THEN ReturnEmpty(La, TRUE)
    ELSE IF ex.items = <<>>
    THEN [La EXCEPT !.pc = "break", !.page_items = <<>>,
                    !.new_cont = ex.continuation]
    ELSE iterate_merged(La, ex,
                        merge_next(La.items, La.seen_ids, ex.items, 1,
                                   max_items, fd, <<>>))

\* lines 227-247: one iteration that got past line 224; r is the reply to the
\* request _browse_req sent
scrape_tab_iterate(La, tab, max_items, r, fd) ==
    iterate_extracted(La, max_items,
                      _extract_from_data(_browse_req(r), tab = "shorts"), fd)

\* lines 249-251
scrape_tab_return(La, max_items) ==
    [La EXCEPT !.pc = "done", !.items = truncate(La.items, max_items)]

\* ---------------------------------------------------------------- the remote side

\* bounds of the pages the remote side serves
MaxPageLen == 2
MaxCap == 2
MaxCount == 2

Ids == {"a", "b", "c"}
Tokens == {"T1", "T2"}

Node(k, v) == Dict(<< <<k, v>> >>)

Renderer(id, variant) ==
    Node(variant[1],
         Dict(<< <<"videoId", Str(id)>>,
                 <<"title", Node("simpleText", Str(variant[2]))>> >>))

\* every id as a videoRenderer, and one id in a second shape as well
Renderers ==
    {Renderer(id, <<"videoRenderer", "t1">>) : id \in Ids}
    \cup {Renderer("a", <<"reelItemRenderer", "t2">>)}

SeqsUpTo(S, n) == UNION {[1..k -> S] : k \in 0..n}

ContinuationItem(token) ==
    Node("continuationItemRenderer",
         Node("continuationEndpoint",
              Node("continuationCommand", Node("token", Str(token)))))

\* a payload with the given renderers and, unless token is "", a continuation
\* item at the end
Payload(renderers, token) ==
    Node("contents",
         List(IF token = "" THEN renderers
              ELSE Append(renderers, ContinuationItem(token))))

Payloads ==
    {Payload(rs, token) :
        rs \in SeqsUpTo(Renderers, MaxPageLen), token \in Tokens \cup {""}}

\* a payload the extractor raises on: v.get on a string (line 154)
Malformed == Node("continuationItemRenderer", Str("x"))

Htmls ==
    {Html(Str("KEY"), Str("2.0"), d) : d \in Payloads \cup {Malformed}}
    \cup {Html(None, Str("2.0"), Payload(<<>>, "")),
          Html(Str("KEY"), None, Payload(<<>>, "")),
          Html(Str("KEY"), Str("2.0"), None),
          Html(Str("KEY"), Str("2.0"), RAISE)}

Gets ==
    {[exc |-> TRUE, html |-> None]}
    \cup {[exc |-> FALSE, html |-> h] : h \in Htmls}

Replies ==
    {Reply(TRUE, 0, None)}
    \cup {Reply(FALSE, 200, b) : b \in Payloads \cup {Malformed, RAISE}}
    \cup {Reply(FALSE, sc, b) :
            sc \in {399, 400, 500},
            b \in {Payload(<<Renderer("c", <<"videoRenderer", "t1">>)>>, "T2"),
                   RAISE}}

Caps == {None} \cup {Num(k) : k \in 0..MaxCap}

\* ---------------------------------------------------------------- one call of scrape_tab

VARIABLES
    tab,         \* the tab argument
    max_items,   \* the max_items argument: None or a number
    L,           \* the local variables of the call
    failed,      \* whether the last request sent failed (exception or >= 400)
    nfetch,      \* continuation requests sent so far, counted up to MaxCount
    discovered   \* every item extracted so far, without the repeats of an id

crawlVars == <<tab, max_items, L, failed, nfetch, discovered>>

\* one request to /scrape
VARIABLES
    ch_pc,       \* the tab scrape_channel calls scrape_tab for next, then
                 \* "respond", then "done"
    ch_max,      \* the query parameters max_videos, max_lives, max_shorts
    ch_in,       \* what the remote served to the calls made so far, in order
    videos,      \* the three results (empty before the call returns)
    lives,
    shorts,
    response     \* what the request handler returned (None before it did)

channelVars == <<ch_pc, ch_max, ch_in, videos, lives, shorts, response>>

\* one call of _parse_item
VARIABLES
    data,        \* the raw record
    is_short,    \* the is_short argument
    parsed       \* the returned value (Pending before the call returns)

parseVars == <<data, is_short, parsed>>

\* one call of _pick_text
VARIABLES
    text_node,   \* the argument t
    picked       \* the returned value (Pending before the call returns)

pickVars == <<text_node, picked>>

\* one call of _extract_from_data
VARIABLES
    payload,     \* the argument data
    short_tab,   \* the argument is_short_tab
    extracted    \* the returned pair (Pending before the call returns)

extractVars == <<payload, short_tab, extracted>>

\* what went over the wire in one call of scrape_tab
VARIABLES
    served,      \* what session.get returned for the tab page (None before)
    sent,        \* the continuation requests sent so far, in order
    answered     \* the replies to them, in order

wireVars == <<served, sent, answered>>

\* description enrichment
VARIABLES
    fetch_full_desc,  \* the fetch_full_desc / full_description argument
    watch,            \* what the remote serves for the /watch page of each id
    crawl_in,         \* the other inputs of a scrape_tab call run as a whole
    crawl_out         \* its locals at the return (Pending before)

enrichVars == <<fetch_full_desc, watch, crawl_in, crawl_out>>

vars ==
    <<crawlVars, channelVars, parseVars, pickVars, extractVars, wireVars,
      enrichVars>>

CrawlIdle ==
    /\ tab = "videos"
    /\ max_items = None
    /\ L = [pc |-> "idle"]
    /\ failed = FALSE
    /\ nfetch = 0
    /\ discovered = <<>>

ChannelIdle ==
    /\ ch_pc = "idle"
    /\ ch_max = <<>>
    /\ ch_in = <<>>
    /\ videos = <<>>
    /\ lives = <<>>
    /\ shorts = <<>>
    /\ response = None

\* no value yet
Pending == [ty |-> "pending", v |-> 0]

ParseIdle ==
    /\ data = EmptyDict
    /\ is_short = FALSE
    /\ parsed = Pending

PickIdle ==
    /\ text_node = None
    /\ picked = Pending

ExtractIdle ==
    /\ payload = EmptyDict
    /\ short_tab = FALSE
    /\ extracted = Pending

\* no enrichment, and no call run as a whole
EnrichIdle ==
    /\ fetch_full_desc = FALSE
    /\ watch = <<>>
    /\ crawl_in = None
    /\ crawl_out = Pending

WireIdle ==
    /\ served = None
    /\ sent = <<>>
    /\ answered = <<>>

RECURSIVE first_occurrences(_, _, _)
\* acc, then the items of page from n on whose id acc does not hold yet
first_occurrences(acc, page, n) ==
    IF n > Len(page) THEN acc
    ELSE IF \E j \in 1..Len(acc) :
                Get(acc[j], "id_interno") = Get(page[n], "id_interno")
    THEN first_occurrences(acc, page, n + 1)
    ELSE first_occurrences(Append(acc, page[n]), page, n + 1)

Init ==
    /\ tab \in Tabs
    /\ max_items \in Caps
    /\ L = Fresh
    /\ failed = FALSE
    /\ nfetch = 0
    /\ discovered = <<>>
    /\ ChannelIdle
    /\ ParseIdle
    /\ PickIdle
    /\ ExtractIdle
    /\ WireIdle
    /\ EnrichIdle

\* page_items is assigned again before its next use when the loop goes on: at
\* the loop head the state keeps it empty
AtLoopHead(n) == IF n.pc = "loop" THEN [n EXCEPT !.page_items = <<>>] ELSE n

\* the state after lines 195-221 left the locals n
Started(n) ==
    /\ L' = AtLoopHead(n)
    /\ discovered' =
          IF n.pc = "loop" THEN first_occurrences(<<>>, n.page_items, 1)
          ELSE <<>>

\* the state after an iteration with the reply r left the locals n
Iterated(r, n) ==
    /\ L' = AtLoopHead(n)
    /\ failed' = (r.exc \/ r.status_code >= 400)
    /\ discovered' =
          IF n.err THEN discovered
          ELSE first_occurrences(discovered, n.page_items, 1)

\* lines 195-221, the tab page answered with get
StartWith(get) ==
    /\ L.pc = "start"
    /\ Started(scrape_tab_start(tab, get,
                                Enrichment(fetch_full_desc, watch)))
    /\ UNCHANGED <<tab, max_items, failed, nfetch, channelVars, parseVars,
                   pickVars, extractVars, enrichVars>>

\* lines 223-247, one iteration, its request answered with r
IterateWith(r) ==
    /\ wants_fetch(L, max_items)
    /\ Iterated(r, scrape_tab_iterate(L, tab, max_items, r,
                                      Enrichment(fetch_full_desc, watch)))
    /\ nfetch' = IF nfetch < MaxCount THEN nfetch + 1 ELSE nfetch
    /\ UNCHANGED <<tab, max_items, channelVars, parseVars, pickVars,
                   extractVars, enrichVars>>

\* lines 195-221
Start ==
    /\ \E get \in Gets : StartWith(get)
    /\ UNCHANGED wireVars

\* lines 223-247, one iteration
Iterate ==
    /\ \E r \in Replies : IterateWith(r)
    /\ UNCHANGED wireVars

\* lines 249-251, after the loop has ended
Return ==
    /\ L.pc = "break" \/ (L.pc = "loop" /\ ~wants_fetch(L, max_items))
    /\ L' = scrape_tab_return(L, max_items)
    /\ UNCHANGED <<tab, max_items, failed, nfetch, discovered, channelVars,
                   parseVars, pickVars, extractVars, wireVars, enrichVars>>

Next == Start \/ Iterate \/ Return

Spec == Init /\ [][Next]_vars

\* the interpreter runs the call to its end
FairSpec == Spec /\ WF_vars(Next)

\* ---------------------------------------------------------------- claims on scrape_tab

\* the id a result item's url was built from
IdOfUrl(url) ==
    CHOOSE id \in Ids :
        url \in {final_url(Str(id), TRUE), final_url(Str(id), FALSE)}

ItemIds(items) ==
    [i \in 1..Len(items) |-> IdOfUrl(Get(items[i], "url"))]

Stripped(found) == [i \in 1..Len(found) |-> strip_id(found[i])]

IsPrefix(s, t) ==
    Len(s) <= Len(t) /\ \A i \in 1..Len(s) : s[i] = t[i]

Take(s, k) == [i \in 1..(IF k < Len(s) THEN k ELSE Len(s)) |-> s[i]]

\* C1: the result never holds two items with the same id, and it is a prefix
\* of the first occurrences of the ids in discovery order: the item kept for
\* an id is its first occurrence, and no later occurrence replaces or
\* reorders it.
C1_Dedup ==
    /\ \A i, j \in 1..Len(L.items) :
          i # j => ItemIds(L.items)[i] # ItemIds(L.items)[j]
    /\ IsPrefix(L.items, Stripped(discovered))

\* C1 witness: the crawl has returned two items or more after a continuation
\* page that repeated a known id in another shape, which was dropped.
C1_Witness ==
    /\ L.pc = "done"
    /\ nfetch >= 1
    /\ Len(L.items) >= 2
    /\ \E n \in 1..Len(L.page_items) :
          /\ Get(L.page_items[n], "id_interno").v \in
                {ItemIds(L.items)[i] : i \in 1..Len(L.items)}
          /\ \A i \in 1..Len(L.items) :
                L.items[i] # strip_id(L.page_items[n])

\* C2: a call with a cap k >= 0 that returns normally returns at most k
\* items, and exactly the first min(k, n) of the duplicate-free discovery
\* list.
C2_CapRespected ==
    (L.pc = "done" /\ ~L.err /\ max_items # None)
        => /\ Len(L.items) <= max_items.v
           /\ L.items = Take(Stripped(discovered), max_items.v)

\* C3: every call of scrape_tab returns.
C3_Terminates == <>(L.pc = "done")

\* a step that sent a continuation request: it leaves the loop head for the
\* loop head or a break, or raises (a return from the loop head without a
\* request never has err set)
Fetched == L.pc = "loop" /\ (L'.pc \in {"loop", "break"} \/ L'.err)

\* C4: a continuation page extracted with the token that was sent for it
\* ends the loop in that iteration, after every item of the page has been
\* merged (its id is in the result, or the cap is reached); after a break
\* nothing is fetched and the call returns.
C4_SameTokenStops ==
    [][/\ (Fetched /\ ~L'.err /\ L'.new_cont = L.continuation)
          => /\ L'.pc = "break"
             /\ \A n \in 1..Len(L'.page_items) :
                   \/ Get(L'.page_items[n], "id_interno").v \in
                         {ItemIds(L'.items)[i] : i \in 1..Len(L'.items)}
                   \/ (Truthy(max_items) /\ Len(L'.items) >= max_items.v)
       /\ L.pc = "break" => (L'.pc = "done" /\ nfetch' = nfetch)
      ]_vars

\* C4 witness: the loop was left on a page that carried the token sent for it
\* and whose last item is the last item of the result.
C4_Witness ==
    /\ L.pc = "break"
    /\ Truthy(L.new_cont)
    /\ L.new_cont = L.continuation
    /\ L.page_items # <<>>
    /\ L.items # <<>>
    /\ L.items[Len(L.items)] = strip_id(L.page_items[Len(L.page_items)])
    /\ Len(discovered) > Len(L.page_items)

ScenarioSeeded ==
    /\ L.pc = "loop"
    /\ nfetch = 0
    /\ ItemIds(L.items) = <<"a", "b">>
    /\ L.continuation = Str("T1")

\* C5: with a cap k >= 1 no continuation request is sent from a state whose
\* result holds k items or more; without a cap a call that returns normally
\* returns every discovered item in order and has left the loop for want of
\* a token, on a repeated token or on an empty page.  From the initial page
\* [a, b] with token T1: cap 2 returns [a, b] with no request sent, and
\* without a cap the page [c] with no token gives [a, b, c] after one
\* request.
C5_CapStopsFetching ==
    [][/\ Fetched => ~(Truthy(max_items) /\ Len(L.items) >= max_items.v)
       /\ (L'.pc = "done" /\ ~L'.err /\ max_items = None)
          => /\ L'.items = Stripped(discovered')
             /\ \/ ~Truthy(L'.continuation)
                \/ ~Truthy(L'.new_cont)
                \/ L'.new_cont = L'.continuation
                \/ L'.page_items = <<>>
       /\ (ScenarioSeeded /\ max_items = Num(2))
          => /\ L'.pc = "done"
             /\ nfetch' = 0
             /\ ItemIds(L'.items) = <<"a", "b">>
       /\ (ScenarioSeeded /\ max_items = None /\ ~L'.err
                /\ ~Truthy(L'.new_cont) /\ Len(L'.page_items) = 1
                /\ Get(L'.page_items[1], "id_interno") = Str("c"))
          => /\ L'.pc = "break"
             /\ nfetch' = 1
             /\ ItemIds(L'.items) = <<"a", "b", "c">>
       /\ (L.pc = "break" /\ max_items = None)
          => (L'.pc = "done" /\ L'.items = L.items /\ nfetch' = nfetch)
      ]_vars

\* C5 witness: a call with cap 2 returned [a, b] holding an unused token and
\* having sent no continuation request.
C5_Witness ==
    /\ L.pc = "done"
    /\ max_items = Num(2)
    /\ nfetch = 0
    /\ Truthy(L.continuation)
    /\ ItemIds(L.items) = <<"a", "b">>

\* C6: a continuation request that fails (exception or status >= 400) ends
\* the loop without an error and without a change to the result; nothing is
\* fetched after it, and the call returns the items collected before it, cut
\* to the cap.
C6_FailedFetchKeepsItems ==
    [][/\ (Fetched /\ failed')
          => (L'.pc = "break" /\ ~L'.err /\ L'.items = L.items)
       /\ (L.pc = "break" /\ failed)
          => /\ L'.pc = "done"
             /\ ~L'.err
             /\ nfetch' = nfetch
             /\ L'.items = (IF max_items \in {None, Num(0)} THEN L.items
                            ELSE Take(L.items, max_items.v))
      ]_vars

\* C6 witness: a call returned its two or more items after a continuation
\* request failed.
C6_Witness ==
    /\ L.pc = "done"
    /\ failed
    /\ ~L.err
    /\ Len(L.items) >= 2

\* ---------------------------------------------------------------- scrape_channel

\* the transport is down: session.post raises
Down == Reply(TRUE, 0, None)

RECURSIVE run_loop(_, _, _, _, _)
\* lines 223-251 from the locals La on; the remote answers the requests with
\* replies, in order, and is down after the last of them
run_loop(La, t, cap, replies, fd) ==
    IF La.pc = "done" THEN La
    ELSE IF wants_fetch(La, cap)
    THEN run_loop(scrape_tab_iterate(La, t, cap,
                                     IF replies = <<>> THEN Down
                                     ELSE Head(replies),
                                     fd),
                  t, cap,
                  IF replies = <<>> THEN <<>> ELSE Tail(replies),
                  fd)
    ELSE scrape_tab_return(La, cap)

\* lines 190-255: the locals of one call at its return
scrape_tab_locals(t, cap, get, replies, fd) ==
    run_loop(scrape_tab_start(t, get, fd), t, cap, replies, fd)

\* lines 190-255: the list one call returns
scrape_tab(t, cap, get, replies, fd) ==
    scrape_tab_locals(t, cap, get, replies, fd).items

\* mutant: total_lives counts the videos
channel_response_miscounted(url, v, l, s) ==
    Dict(<< <<"channel", Str(url)>>,
            <<"total_videos", Num(Len(v))>>,
            <<"total_lives", Num(Len(v))>>,
            <<"total_shorts", Num(Len(s))>>,
            <<"videos", List(v)>>,
            <<"lives", List(l)>>,
            <<"shorts", List(s)>> >>)

\* lines 284-292
channel_response(url, v, l, s) ==
    Dict(<< <<"channel", Str(url)>>,
            <<"total_videos", Num(Len(v))>>,
            <<"total_lives", Num(Len(l))>>,
            <<"total_shorts", Num(Len(s))>>,
            <<"videos", List(v)>>,
            <<"lives", List(l)>>,
            <<"shorts", List(s)>> >>)

\* line 277, for a channel_url without a query string or a trailing slash
base_url == "https://www.youtube.com/@channel"

\* bound of the continuation pages served to one tab of a request
MaxChannelReplies == 1

ChannelGets ==
    {[exc |-> TRUE, html |-> None]}
    \cup {[exc |-> FALSE, html |-> h] :
            h \in {Html(None, Str("2.0"), Payload(<<>>, "")),
                   Html(Str("KEY"), Str("2.0"), None),
                   Html(Str("KEY"), Str("2.0"),
                        Payload(<<Renderer("a", <<"videoRenderer", "t1">>)>>,
                                "T1")),
                   Html(Str("KEY"), Str("2.0"),
                        Payload(<<Renderer("a", <<"videoRenderer", "t1">>),
                                  Renderer("b", <<"videoRenderer", "t1">>)>>,
                                ""))}}

ChannelReplies ==
    SeqsUpTo({Reply(FALSE, 200,
                    Payload(<<Renderer("c", <<"videoRenderer", "t1">>)>>, ""))},
             MaxChannelReplies)

ChannelCaps == {None, Num(1)}

Served(get, replies) == [get |-> get, replies |-> replies]

ChannelInit ==
    /\ ch_pc = "videos"
    /\ ch_max \in [Tabs -> ChannelCaps]
    /\ ch_in = <<>>
    /\ videos = <<>>
    /\ lives = <<>>
    /\ shorts = <<>>
    /\ response = None
    /\ CrawlIdle
    /\ ParseIdle
    /\ PickIdle
    /\ ExtractIdle
    /\ WireIdle
    /\ EnrichIdle

\* line 280
ScrapeVideos ==
    /\ ch_pc = "videos"
    /\ \E get \in ChannelGets, replies \in ChannelReplies :
        /\ videos' = scrape_tab("videos", ch_max["videos"], get, replies,
                                     Enrichment(fetch_full_desc, watch))
        /\ ch_in' = Append(ch_in, Served(get, replies))
    /\ ch_pc' = "lives"
    /\ UNCHANGED <<ch_max, lives, shorts, response, crawlVars, parseVars,
                 pickVars, extractVars, wireVars, enrichVars>>

\* line 281
ScrapeLives ==
    /\ ch_pc = "lives"
    /\ \E get \in ChannelGets, replies \in ChannelReplies :
        /\ lives' = scrape_tab("lives", ch_max["lives"], get, replies,
                                     Enrichment(fetch_full_desc, watch))
        /\ ch_in' = Append(ch_in, Served(get, replies))
    /\ ch_pc' = "shorts"
    /\ UNCHANGED <<ch_max, videos, shorts, response, crawlVars, parseVars,
                 pickVars, extractVars, wireVars, enrichVars>>

\* line 282
ScrapeShorts ==
    /\ ch_pc = "shorts"
    /\ \E get \in ChannelGets, replies \in ChannelReplies :
        /\ shorts' = scrape_tab("shorts", ch_max["shorts"], get, replies,
                                     Enrichment(fetch_full_desc, watch))
        /\ ch_in' = Append(ch_in, Served(get, replies))
    /\ ch_pc' = "respond"
    /\ UNCHANGED <<ch_max, videos, lives, response, crawlVars, parseVars,
                 pickVars, extractVars, wireVars, enrichVars>>

\* lines 284-292
Respond ==
    /\ ch_pc = "respond"
    /\ response' = channel_response(base_url, videos, lives, shorts)
    /\ ch_pc' = "done"
    /\ UNCHANGED <<ch_max, ch_in, videos, lives, shorts, crawlVars, parseVars,
                 pickVars, extractVars, wireVars, enrichVars>>

ChannelNext == ScrapeVideos \/ ScrapeLives \/ ScrapeShorts \/ Respond

ChannelSpec == ChannelInit /\ [][ChannelNext]_vars

\* ---------------------------------------------------------------- claims on scrape_channel

TabOrder == <<"videos", "lives", "shorts">>

TotalKey(t) == "total_" \o t

\* client keys or initial-data block missing from the page that was served
Unparsable(get) ==
    /\ ~get.exc
    /\ \/ get.html.api_key = None
       \/ get.html.client_version = None
       \/ get.html.ytInitialData = None

\* C7: in the response, a tab whose initial page could not be parsed has an
\* empty list and a count of 0; the request succeeds; every tab's list is what
\* scrape_tab gives for that tab's own cap and pages, whatever the other tabs
\* were served; and every total is the length of its list.
C7_TabIsolation ==
    ch_pc = "done"
        => /\ response.ty = "dict"
           /\ \A i \in 1..3 :
                /\ Unparsable(ch_in[i].get)
                      => /\ Get(response, TabOrder[i]) = EmptyList
                         /\ Get(response, TotalKey(TabOrder[i])) = Num(0)
                /\ Get(response, TabOrder[i]) =
                      List(scrape_tab(TabOrder[i], ch_max[TabOrder[i]],
                                      ch_in[i].get, ch_in[i].replies,
                                      Enrichment(fetch_full_desc, watch)))
                /\ Get(response, TotalKey(TabOrder[i])) =
                      Num(Len(Get(response, TabOrder[i]).v))

\* C7 witness: a response whose lives page could not be parsed, with videos
\* and shorts found.
C7_Witness ==
    /\ ch_pc = "done"
    /\ Unparsable(ch_in[2].get)
    /\ Get(response, "total_videos").v >= 1
    /\ Get(response, "total_shorts").v >= 1
    /\ Get(response, "total_lives") = Num(0)

\* C8: a request whose first tab page (videos) cannot be parsed fails as a
\* whole, and one whose later tab page cannot be parsed succeeds with that
\* tab empty.
C8_FirstTabHardFailure ==
    ch_pc = "done"
        => /\ Unparsable(ch_in[1].get) => response.ty = "raise"
           /\ \A i \in 2..3 :
                (Unparsable(ch_in[i].get) /\ ~Unparsable(ch_in[1].get))
                    => /\ response.ty = "dict"
                       /\ Get(response, TabOrder[i]) = EmptyList

\* ---------------------------------------------------------------- one call of _parse_item

Url(u) == Node("url", Str(u))

\* the fields a raw record may carry, each in the shapes the three renderer
\* generations give it; <<>> is "key absent"
VideoIdFields == {<<>>, <<"videoId", Str("v1")>>, <<"videoId", Str("")>>,
                  <<"videoId", None>>}

TitleFields ==
    {<<>>,
     <<"title", Node("simpleText", Str("T"))>>,
     <<"title", Node("simpleText", Str(""))>>}

HeadlineFields ==
    {<<>>, <<"headline", Node("runs", List(<<Node("text", Str("H"))>>))>>}

ThumbnailFields ==
    {<<>>,
     <<"thumbnail", Dict(<< <<"thumbnails", List(<<Url("t1"), Url("t2")>>)>>,
                            <<"sources", List(<<Url("s1"), Url("s2")>>)>> >>)>>,
     <<"thumbnail", Dict(<< <<"thumbnails", EmptyList>>,
                            <<"sources", List(<<Url("s1")>>)>> >>)>>}

OnTapFields ==
    {<<>>,
     <<"onTap", Node("innertubeCommand",
                     Node("reelWatchEndpoint", Node("videoId", Str("v2"))))>>,
     <<"onTap", Node("innertubeCommand",
                     Node("watchEndpoint", Node("videoId", Str(""))))>>,
     <<"onTap", Node("innertubeCommand", EmptyDict)>>}

OverlayFields ==
    {<<>>,
     <<"overlayMetadata", Node("primaryText", Node("content", Str("O")))>>}

NavigationFields ==
    {<<>>,
     <<"navigationEndpoint", Node("reelWatchEndpoint",
                                  Node("videoId", Str("v3")))>>,
     <<"navigationEndpoint", Node("reelWatchEndpoint", EmptyDict)>>,
     <<"navigationEndpoint", Node("watchEndpoint",
                                  Node("videoId", Str("v3")))>>}

\* the dict of the fields that are present
Record(fields) ==
    Dict(SelectSeq(fields, LAMBDA f : f # <<>>))

RawRecords ==
    {Record(<<i, t, h, th, o, ov, n>>) :
        i \in VideoIdFields, t \in TitleFields, h \in HeadlineFields,
        th \in ThumbnailFields, o \in OnTapFields, ov \in OverlayFields,
        n \in NavigationFields}

ParseInit ==
    /\ data \in RawRecords
    /\ is_short \in BOOLEAN
    /\ parsed = Pending
    /\ CrawlIdle
    /\ ChannelIdle
    /\ PickIdle
    /\ ExtractIdle
    /\ WireIdle
    /\ EnrichIdle

\* line 149
Parse ==
    /\ parsed = Pending
    /\ parsed' = _parse_item(data, is_short)
    /\ UNCHANGED <<data, is_short, crawlVars, channelVars, pickVars,
                   extractVars, wireVars, enrichVars>>

ParseNext == Parse

ParseSpec == ParseInit /\ [][ParseNext]_vars

\* ---------------------------------------------------------------- claims on _parse_item

\* the id each strategy resolves on its own, None when it resolves none
DirectId(d) == GetOr(d, "videoId", None)

OnTapId(d) ==
    IF Has(d, "onTap") THEN find_endpoint(_walk(Get(d, "onTap")), 1) ELSE None

NavId(d) ==
    IF Has(d, "navigationEndpoint")
       /\ Has(Get(d, "navigationEndpoint"), "reelWatchEndpoint")
    THEN GetOr(Get(Get(d, "navigationEndpoint"), "reelWatchEndpoint"),
               "videoId", None)
    ELSE None

\* the first non-empty id in strategy order
ResolvedId(d) ==
    IF Truthy(DirectId(d)) THEN DirectId(d)
    ELSE IF Truthy(OnTapId(d)) THEN OnTapId(d)
    ELSE NavId(d)

\* C9: _parse_item returns None exactly when none of the three strategies
\* resolves a non-empty id, and otherwise an item with the id of the first
\* strategy, in the order direct field, onTap, navigationEndpoint, that
\* resolves one.
C9_NoneIffNoStrategyResolves ==
    parsed # Pending
        => /\ (parsed = None) <=> ~Truthy(ResolvedId(data))
           /\ Truthy(ResolvedId(data))
                => /\ parsed.ty = "dict"
                   /\ Get(parsed, "id_interno") = ResolvedId(data)

\* what the direct-field strategy reads
DirectTitle(d) ==
    IF Has(d, "title") /\ Get(Get(d, "title"), "simpleText") # EmptyStr
    THEN Get(Get(d, "title"), "simpleText")
    ELSE IF Has(d, "headline") THEN Str("H")
    ELSE EmptyStr

DirectThumbs(d) ==
    IF Has(d, "thumbnail") THEN Get(Get(d, "thumbnail"), "thumbnails").v
    ELSE <<>>

DirectThumb(d) ==
    IF DirectThumbs(d) = <<>> THEN EmptyStr
    ELSE Get(DirectThumbs(d)[Len(DirectThumbs(d))], "url")

BothStrategies(d) ==
    /\ Has(d, "videoId")
    /\ Has(d, "onTap")
    /\ Truthy(OnTapId(d))

\* C10: for a record with a videoId field and an onTap subtree whose endpoint
\* holds a videoId, the result takes its id from the videoId field (and is
\* None when that field is empty), its title from title/headline and its
\* thumbnail from the last entry of thumbnail.thumbnails; the onTap id,
\* overlayMetadata and thumbnail.sources are never read.
C10_DirectFieldWins ==
    (parsed # Pending /\ BothStrategies(data))
        => IF Truthy(DirectId(data))
           THEN /\ parsed.ty = "dict"
                /\ Get(parsed, "id_interno") = DirectId(data)
                /\ Get(parsed, "id_interno") # OnTapId(data)
                /\ Get(parsed, "title") = DirectTitle(data)
                /\ Get(parsed, "title") # Str("O")
                /\ Get(parsed, "thumbnail") = DirectThumb(data)
                /\ Get(parsed, "thumbnail").v \notin {"s1", "s2"}
           ELSE parsed = None

\* C10 witness: an item parsed from a record that has the videoId field, the
\* onTap endpoint id, overlayMetadata, and both thumbnail lists.
C10_Witness ==
    /\ parsed.ty = "dict"
    /\ BothStrategies(data)
    /\ Has(data, "overlayMetadata")
    /\ Has(data, "title")
    /\ DirectThumbs(data) # <<>>
    /\ Get(parsed, "thumbnail") = Str("t2")

\* ---------------------------------------------------------------- one call of _pick_text

\* bound of the length of a runs array
MaxRuns == 2

RunElements == {Node("text", Str("r1")), Node("text", Str("r2")), EmptyDict}

SimpleTextFields == {<<>>, <<"simpleText", Str("S")>>, <<"simpleText", Str("")>>}

ContentFields == {<<>>, <<"content", Str("C")>>, <<"content", Str("")>>}

RunsFields ==
    {<<>>} \cup {<<"runs", List(runs)>> : runs \in SeqsUpTo(RunElements, MaxRuns)}

\* what a caller passes as t: a dict with any of the three encodings, or the
\* values that are no dict
TextNodes ==
    {Record(<<st, r, c>>) :
        st \in SimpleTextFields, r \in RunsFields, c \in ContentFields}
    \cup {None, Str("x"), Num(1), List(<<Node("simpleText", Str("S"))>>)}

PickInit ==
    /\ text_node \in TextNodes
    /\ picked = Pending
    /\ CrawlIdle
    /\ ChannelIdle
    /\ ParseIdle
    /\ ExtractIdle
    /\ WireIdle
    /\ EnrichIdle

\* lines 58-63
Pick ==
    /\ picked = Pending
    /\ picked' = _pick_text(text_node)
    /\ UNCHANGED <<text_node, crawlVars, channelVars, parseVars, extractVars,
                   wireVars, enrichVars>>

PickNext == Pick

PickSpec == PickInit /\ [][PickNext]_vars

\* ---------------------------------------------------------------- claims on _pick_text

RECURSIVE ConcatRuns(_, _)
\* the text fragments of the runs from i on, concatenated
ConcatRuns(runs, i) ==
    IF i > Len(runs) THEN ""
    ELSE GetOr(runs[i], "text", EmptyStr).v \o ConcatRuns(runs, i + 1)

\* the text of a node under the order simpleText, runs, content
TextInStatedOrder(n) ==
    IF n.ty # "dict" THEN EmptyStr
    ELSE IF Has(n, "simpleText") THEN Get(n, "simpleText")
    ELSE IF Has(n, "runs") THEN Str(ConcatRuns(Get(n, "runs").v, 1))
    ELSE IF Has(n, "content") THEN Get(n, "content")
    ELSE EmptyStr

\* C11: _pick_text returns the first encoding present in the order
\* simpleText, runs concatenation, content -- a node with both runs and
\* content gives the concatenated runs -- and "" for a node that bears no
\* text.
C11_PickOrder ==
    picked # Pending => picked = TextInStatedOrder(text_node)

\* ---------------------------------------------------------------- one call of _extract_from_data

\* bound of the number of nodes in the contents list of a payload
MaxNodes == 2

\* the new shorts layout: the id sits in the onTap command
ShortsLockup(id) ==
    Node("shortsLockupViewModel",
         Node("onTap",
              Node("innertubeCommand",
                   Node("reelWatchEndpoint", Node("videoId", Str(id))))))

\* a continuation item whose command sits in a command list
ExecutorItem(token) ==
    Node("continuationItemRenderer",
         Node("continuationEndpoint",
              Node("commandExecutorCommand",
                   Node("commands",
                        List(<<Node("continuationCommand",
                                    Node("token", Str(token)))>>)))))

BareCommand(token) == Node("continuationCommand", Node("token", Str(token)))

\* one record of each recognized kind, each with an id of its own
KindNodes ==
    {Renderer("a", <<"videoRenderer", "t1">>),
     Renderer("g", <<"gridVideoRenderer", "t1">>),
     Renderer("r", <<"reelItemRenderer", "t1">>),
     ShortsLockup("s")}

TokenNodes ==
    {ContinuationItem("T1"), ContinuationItem(""), ExecutorItem("T3"),
     BareCommand("T2")}

OtherNodes == {Node("messageRenderer", Node("text", Str("x")))}

\* nodes whose value has an unexpected type
MalformedNodes ==
    {Node("continuationItemRenderer", Str("x")),
     Node("continuationCommand", None),
     Node("videoRenderer", Str("x")),
     Node("videoRenderer",
          Dict(<< <<"videoId", Str("m")>>, <<"thumbnail", Str("x")>> >>))}

PayloadNodes == KindNodes \cup TokenNodes \cup OtherNodes \cup MalformedNodes

ExtractPayloads ==
    {Node("contents", List(nodes)) : nodes \in SeqsUpTo(PayloadNodes, MaxNodes)}

ExtractInit ==
    /\ payload \in ExtractPayloads
    /\ short_tab \in BOOLEAN
    /\ extracted = Pending
    /\ CrawlIdle
    /\ ChannelIdle
    /\ ParseIdle
    /\ PickIdle
    /\ WireIdle
    /\ EnrichIdle

\* lines 207 and 228
Extract ==
    /\ extracted = Pending
    /\ extracted' = _extract_from_data(payload, short_tab)
    /\ UNCHANGED <<payload, short_tab, crawlVars, channelVars, parseVars,
                   pickVars, wireVars, enrichVars>>

ExtractNext == Extract

ExtractSpec == ExtractInit /\ [][ExtractNext]_vars

\* ---------------------------------------------------------------- claims on _extract_from_data

\* x.get(k) where x is a dict, None for any other x
SafeGet(x, k) == IF x.ty = "dict" THEN GetOr(x, k, None) ELSE None

\* the token a continuationItemRenderer value carries in
\* continuationEndpoint.continuationCommand.token
PathToken(v) ==
    SafeGet(SafeGet(SafeGet(v, "continuationEndpoint"), "continuationCommand"),
            "token")

\* positions in the scan of the continuation items with a non-empty token
ItemPositions(w) ==
    {i \in 1..Len(w) :
        w[i][1] = "continuationItemRenderer" /\ Truthy(PathToken(w[i][2]))}

\* positions in the scan of the continuationCommand nodes, anywhere in the
\* tree, with a non-empty token
CommandPositions(w) ==
    {i \in 1..Len(w) :
        w[i][1] = "continuationCommand" /\ Truthy(SafeGet(w[i][2], "token"))}

Min(S) == CHOOSE x \in S : \A y \in S : x <= y

StatedToken(w) ==
    IF ItemPositions(w) # {} THEN PathToken(w[Min(ItemPositions(w))][2])
    ELSE IF CommandPositions(w) # {}
    THEN SafeGet(w[Min(CommandPositions(w))][2], "token")
    ELSE None

WellFormedRest(d) ==
    Node("contents",
         List(SelectSeq(Get(d, "contents").v,
                        LAMBDA n : n \notin MalformedNodes)))

HasMalformed(d) ==
    \E i \in 1..Len(Get(d, "contents").v) :
        Get(d, "contents").v[i] \in MalformedNodes

\* C13: _extract_from_data never raises, whatever the types of the values in
\* the payload: an ill-typed node is skipped and the items and the token are
\* those of the payload without it.
C13_NeverRaises ==
    extracted # Pending
        => /\ extracted.ty = "ok"
           /\ extracted = _extract_from_data(WellFormedRest(payload), short_tab)

\* the id of a record, from its videoId field or from its onTap command
RecordId(v) == IF Has(v, "videoId") THEN Get(v, "videoId") ELSE OnTapId(v)

\* the ids of the records of the two shorts-only kinds
ShortsKindIds(w) ==
    {RecordId(w[i][2]) :
        i \in {j \in 1..Len(w) :
                 /\ w[j][1] \in {"reelItemRenderer", "shortsLockupViewModel"}
                 /\ w[j][2].ty = "dict"}}

StatedUrl(id, shorts_route) ==
    Str(YOUTUBE_ROOT \o (IF shorts_route THEN "/shorts/" ELSE "/watch?v=")
        \o id.v)

\* C14: the url of every extracted item is built from the item's own id, with
\* the /shorts/ route exactly when the tab is shorts or the record is a
\* reelItemRenderer or a shortsLockupViewModel, and with the /watch?v= route
\* otherwise.
C14_UrlRoute ==
    (extracted # Pending /\ extracted.ty = "ok")
        => \A i \in 1..Len(extracted.items) :
              Get(extracted.items[i], "url") =
                 StatedUrl(Get(extracted.items[i], "id_interno"),
                           short_tab
                           \/ Get(extracted.items[i], "id_interno")
                                \in ShortsKindIds(_walk(payload)))

\* C14 witness: outside the shorts tab, a page with a record of a shorts-only
\* kind and a record of another kind, both extracted.
C14_Witness ==
    /\ extracted # Pending
    /\ extracted.ty = "ok"
    /\ ~short_tab
    /\ Len(extracted.items) = 2
    /\ \E i, j \in 1..2 :
          /\ Get(extracted.items[i], "id_interno")
                \in ShortsKindIds(_walk(payload))
          /\ Get(extracted.items[j], "id_interno")
                \notin ShortsKindIds(_walk(payload))

NoRecognizedKind(w) == \A i \in 1..Len(w) : w[i][1] \notin target_keys

\* C15: for a payload without a node of the four recognized kinds,
\* _extract_from_data returns no items and the continuation None.
C15_NoKindsNothing ==
    (extracted # Pending /\ NoRecognizedKind(_walk(payload)))
        => /\ extracted.ty = "ok"
           /\ extracted.items = <<>>
           /\ extracted.continuation = None

\* ---------------------------------------------------------------- a crawl or a request

\* the calls of scrape_tab seen step by step, and the requests to /scrape
TabOrChannelInit == Init \/ ChannelInit

TabOrChannelNext == Next \/ ChannelNext

TabOrChannelSpec == TabOrChannelInit /\ [][TabOrChannelNext]_vars

ExposedFields == {"url", "title", "description", "thumbnail"}

Fields(item) == {item.v[i][1] : i \in 1..Len(item.v)}

OnlyExposed(items) ==
    \A i \in 1..Len(items) :
        Fields(items[i]) = ExposedFields /\ Len(items[i].v) = 4

\* C16: in every state of a crawl and in the response, every item of a tab's
\* result has exactly the fields url, title, description and thumbnail; the
\* raw identifier id_interno is in none of them.
C16_NoRawId ==
    /\ L.pc # "idle" => OnlyExposed(L.items)
    /\ OnlyExposed(videos)
    /\ OnlyExposed(lives)
    /\ OnlyExposed(shorts)
    /\ response.ty = "dict"
          => \A t \in Tabs : OnlyExposed(Get(response, t).v)

\* C16 witness: a crawl at the head of its loop with items appended from the
\* initial page and from a continuation page.
C16_Witness ==
    /\ L.pc = "loop"
    /\ nfetch >= 1
    /\ Len(L.items) >= 2
    /\ Len(discovered) = Len(L.items)

\* C17: an exception raised while a later page is processed, after the initial
\* page was merged, leaves the call returning the items collected so far.
C17_PartialResultKept ==
    [][(L.pc = "loop" /\ L'.pc = "done" /\ L'.err)
          => L'.items = truncate(L.items, max_items)]_vars

\* ---------------------------------------------------------------- the requests of one crawl

\* bound of the continuation requests of one crawl
MaxSent == 3

\* lines 167-183 and 227: what the request carries
browse_request(La) ==
    [api_key |-> Get(La.keys, "api_key"),
     client_version |-> Get(La.keys, "client_version"),
     continuation |-> La.continuation]

ChainRenderers == {Renderer(id, <<"videoRenderer", "t1">>) : id \in Ids}

ChainPayloads ==
    {Payload(rs, token) :
        rs \in SeqsUpTo(ChainRenderers, 1), token \in Tokens \cup {""}}

ChainGets ==
    {[exc |-> FALSE, html |-> Html(Str(k[1]), Str(k[2]), d)] :
        k \in {<<"KEY1", "1.0">>, <<"KEY2", "2.0">>},
        d \in {Payload(<<Renderer("a", <<"videoRenderer", "t1">>)>>, token) :
                 token \in Tokens \cup {""}}}

ChainReplies ==
    {Reply(FALSE, 200, d) : d \in ChainPayloads} \cup {Reply(FALSE, 500, None)}

ChainInit ==
    /\ tab \in Tabs
    /\ max_items \in {None, Num(MaxCap)}
    /\ L = Fresh
    /\ failed = FALSE
    /\ nfetch = 0
    /\ discovered = <<>>
    /\ WireIdle
    /\ EnrichIdle
    /\ ChannelIdle
    /\ ParseIdle
    /\ PickIdle
    /\ ExtractIdle

\* lines 195-221
ChainStart ==
    /\ \E get \in ChainGets :
        /\ StartWith(get)
        /\ served' = get
    /\ UNCHANGED <<sent, answered>>

\* lines 223-247, one iteration
ChainFetch ==
    /\ Len(sent) < MaxSent
    /\ \E r \in ChainReplies :
        /\ IterateWith(r)
        /\ sent' = Append(sent, browse_request(L))
        /\ answered' = Append(answered, r)
    /\ UNCHANGED served

ChainNext == ChainStart \/ ChainFetch \/ Return

ChainSpec == ChainInit /\ [][ChainNext]_vars

\* the token a page holds, by the rule of C12
TokenOfPage(d) == StatedToken(_walk(d))

\* C18: the first continuation request of a crawl sends the token extracted
\* from the initial page, every later one the token extracted from the page
\* the request before it returned, no two consecutive requests send the same
\* token, and every request carries the API key and the client version
\* scraped from the crawl's initial page.
C18_ChainedFetches ==
    /\ Len(answered) = Len(sent)
    /\ \A i \in 1..Len(sent) :
          /\ sent[i].continuation =
                (IF i = 1 THEN TokenOfPage(served.html.ytInitialData)
                 ELSE TokenOfPage(_browse_req(answered[i - 1])))
          /\ i > 1 => sent[i].continuation # sent[i - 1].continuation
          /\ sent[i].api_key = served.html.api_key
          /\ sent[i].client_version = served.html.client_version

\* C18 witness: a crawl that sent three requests, with the tokens T1, T2, T1.
C18_Witness ==
    /\ Len(sent) = 3
    /\ sent[1].continuation = Str("T1")
    /\ sent[2].continuation = Str("T2")
    /\ sent[3].continuation = Str("T1")
    /\ sent[3].api_key = Str("KEY2")

\* ---------------------------------------------------------------- a crawl with description enrichment

\* a videoRenderer with a description snippet
Described(id) ==
    Node("videoRenderer",
         Dict(<< <<"videoId", Str(id)>>,
                 <<"title", Node("simpleText", Str("t1"))>>,
                 <<"descriptionSnippet",
                   Node("simpleText", Str("snip-" \o id))>> >>))

WatchKinds == {"full", "empty", "exc", "nomatch", "badjson"}

\* the /watch page of id, of each kind
WatchOf(kind, id) ==
    CASE kind = "full" ->
            WatchPage(FALSE, Node("videoDetails",
                                  Node("shortDescription",
                                       Str("full-" \o id))))
      [] kind = "empty" ->
            WatchPage(FALSE, Node("videoDetails",
                                  Node("shortDescription", EmptyStr)))
      [] kind = "exc" -> WatchPage(TRUE, None)
      [] kind = "nomatch" -> WatchPage(FALSE, None)
      [] OTHER -> WatchPage(FALSE, RAISE)

WatchMaps ==
    {[id \in Ids |-> WatchOf(k[id], id)] : k \in [Ids -> WatchKinds]}

EnrichGets ==
    {[exc |-> FALSE, html |-> Html(Str("KEY"), Str("2.0"), Payload(rs, token))] :
        rs \in SeqsUpTo({Described("a"), Described("b")}, 2),
        token \in {"", "T1"}}

EnrichReplies ==
    {<<>>,
     <<Reply(FALSE, 200, Payload(<<Described("b"), Described("c")>>, ""))>>}

CrawlIn(cap, get, replies) ==
    [max_items |-> cap, get |-> get, replies |-> replies]

EnrichInit ==
    /\ fetch_full_desc \in BOOLEAN
    /\ watch \in WatchMaps
    /\ crawl_in \in {CrawlIn(cap, get, replies) :
                        cap \in {None, Num(1), Num(2)}, get \in EnrichGets,
                        replies \in EnrichReplies}
    /\ crawl_out = Pending
    /\ CrawlIdle
    /\ ChannelIdle
    /\ ParseIdle
    /\ PickIdle
    /\ ExtractIdle
    /\ WireIdle

\* lines 190-255, the call from its first line to its return
Crawl ==
    /\ crawl_out = Pending
    /\ crawl_out' = scrape_tab_locals("videos", crawl_in.max_items,
                                      crawl_in.get, crawl_in.replies,
                                      Enrichment(fetch_full_desc, watch))
    /\ UNCHANGED <<fetch_full_desc, watch, crawl_in, crawlVars, channelVars,
                   parseVars, pickVars, extractVars, wireVars>>

EnrichNext == Crawl

EnrichSpec == EnrichInit /\ [][EnrichNext]_vars

\* ---------------------------------------------------------------- claims on the enrichment

\* the same call over the same pages with enrichment disabled
Disabled ==
    scrape_tab_locals("videos", crawl_in.max_items, crawl_in.get,
                      crawl_in.replies, Enrichment(FALSE, watch))

\* what the lookup for id returns: the full description, or "" when the
\* lookup fails or finds none
LookedUp(id) ==
    IF watch[id] = WatchOf("full", id) THEN Str("full-" \o id) ELSE EmptyStr

\* item on against item off: the description alone may differ, and it is
\* the non-empty result of the lookup or else the snippet
EnrichedFrom(on, off) ==
    /\ \A k \in {"url", "title", "thumbnail"} : Get(on, k) = Get(off, k)
    /\ Get(on, "description") =
          (IF fetch_full_desc /\ LookedUp(IdOfUrl(Get(off, "url"))) # EmptyStr
           THEN LookedUp(IdOfUrl(Get(off, "url")))
           ELSE Get(off, "description"))

\* C19: with enrichment enabled every id the crawl kept is looked up once
\* and no id twice, so never for an item dropped as a duplicate; with it
\* disabled nothing is looked up; and the result is the result of the
\* disabled run over the same pages, item by item, but for the descriptions
\* that a lookup with a non-empty result replaced.
C19_Enrichment ==
    crawl_out # Pending
        => /\ \A i, j \in 1..Len(crawl_out.lookups) :
                 i # j => crawl_out.lookups[i] # crawl_out.lookups[j]
           /\ {crawl_out.lookups[i] : i \in 1..Len(crawl_out.lookups)} =
                 (IF fetch_full_desc THEN crawl_out.seen_ids ELSE {})
           /\ Len(crawl_out.items) = Len(Disabled.items)
           /\ \A i \in 1..Len(crawl_out.items) :
                 EnrichedFrom(crawl_out.items[i], Disabled.items[i])

\* C19 witness: an enabled crawl over an initial page that repeats an id and
\* a continuation page, with three lookups, one description replaced and one
\* snippet left.
C19_Witness ==
    /\ crawl_out # Pending
    /\ fetch_full_desc
    /\ Len(crawl_out.lookups) = 3
    /\ Len(crawl_out.items) = 3
    /\ Get(crawl_in.get.html.ytInitialData, "contents").v[1] =
          Get(crawl_in.get.html.ytInitialData, "contents").v[2]
    /\ Get(crawl_out.items[1], "description") = Str("full-a")
    /\ Get(crawl_out.items[2], "description") = Str("snip-b")

====
